---------------------------- MODULE Spec2Model ----------------------------
(***************************************************************************)
(* A model of the exp/filesystem server: a DirServer and a StoreServer     *)
(* that serve a local directory tree read-only (common.go, store.go).      *)
(*                                                                         *)
(* Strings (path names, references, file names) are sequences of tokens;   *)
(* the tokens "/" and "-" are the separators the code splits on, and the   *)
(* token "Access" stands for the file name "Access".  The owner of the     *)
(* served tree is the user name <<"U">>; <<"V">> is another user.          *)
(***************************************************************************)
EXTENDS Integers, Sequences, FiniteSets, TLC

VARIABLES
    fs,         \* the local file tree under s.root: local path -> node
    dirEntries, \* s.dirEntries, the cache: local path -> DirEntry (or NoEntry)
    last,       \* the last request made and what it returned
    handles,    \* the Server structs made by New and Dial, in order of creation
    heap,       \* the DirEntry objects allocated by entry() calls in progress
    slot,       \* the object s.dirEntries holds for the file d/f, 0 for none
    procs       \* the requests in progress, one per goroutine

vars == <<fs, dirEntries, last, handles, heap, slot, procs>>
\* the state of the handles and of the requests that run step by step
stepVars == <<handles, heap, slot, procs>>

----------------------------------------------------------------------------
(* Bounds of the model *)

\* modification times are 1..MaxTime
MaxTime == 2
\* the references decoded in SpecDecode have a relative path of at most
\* MaxRefLen tokens and an offset of at most MaxOffLen digits
MaxRefLen == 3
MaxOffLen == 1
\* at most MaxHandles Server structs are made by New and Dial
MaxHandles == 3

\* common.go:25; the tree of the model names far fewer files than this, so
\* the cache never evicts
maxCacheEntries == 10000

----------------------------------------------------------------------------
(* Strings *)

\* strings.Split(s, sep) for a one-token separator
RECURSIVE Split(_, _)
Split(s, sep) ==
    IF \A i \in 1..Len(s) : s[i] # sep
    THEN <<s>>
    ELSE LET k == CHOOSE i \in 1..Len(s) :
                     s[i] = sep /\ \A j \in 1..(i-1) : s[j] # sep
         IN  <<SubSeq(s, 1, k-1)>> \o Split(SubSeq(s, k+1, Len(s)), sep)

\* strings.Join(parts, sep)
RECURSIVE Join(_, _)
Join(parts, sep) ==
    IF parts = <<>> THEN <<>>
    ELSE IF Len(parts) = 1 THEN parts[1]
    ELSE parts[1] \o <<sep>> \o Join(Tail(parts), sep)

\* the elements of a sequence that are not empty, in order
RECURSIVE NonEmpty(_)
NonEmpty(parts) ==
    IF parts = <<>> THEN <<>>
    ELSE IF parts[1] = <<>> THEN NonEmpty(Tail(parts))
    ELSE <<parts[1]>> \o NonEmpty(Tail(parts))

\* "/" + e1 + "/" + e2 ... : the slash-separated form of a list of elements
RECURSIVE Slashed(_)
Slashed(elems) ==
    IF elems = <<>> THEN <<>>
    ELSE <<"/">> \o elems[1] \o Slashed(Tail(elems))

DropLast(elems, i) == SubSeq(elems, 1, Len(elems) - i)

----------------------------------------------------------------------------
(* Users and path names *)

Owner == <<"U">>
Other == <<"V">>
\* s.user of a handle that was never dialed is nil
NoUser == <<>>
Callers == {Owner, Other, NoUser}

\* user.Parse as path.Parse applies it to the text before the first slash:
\* a user name is a known name, possibly followed by more text of its
\* domain, and a domain does not end in a hyphen
ValidUser(u) ==
    /\ Len(u) >= 1
    /\ u[1] \in {"U", "V"}
    /\ u[Len(u)] # "-"

\* path.Parse: the user is the text before the first slash, the elements
\* are the non-empty slash-separated parts after it
Parse(pathName) ==
    LET parts == Split(pathName, "/")
    IN  IF ~ValidUser(parts[1])
        THEN [ok |-> FALSE, user |-> <<>>, elems |-> <<>>]
        ELSE [ok |-> TRUE, user |-> parts[1], elems |-> NonEmpty(Tail(parts))]

\* parsed.Path() and parsed.String(): "user/" for the root
PathOf(user, elems) ==
    IF elems = <<>> THEN user \o <<"/">> ELSE user \o Slashed(elems)

----------------------------------------------------------------------------
(* The local file tree *)

AccessName == <<"Access">>
NameD  == <<"d">>
NameF  == <<"f">>
NameS  == <<"s">>
NameG  == <<"g">>
NameG0 == <<"g", "-", "0">>

\* the tree:  Access  d/Access  d/f  d/s/  g  g-0
PRoot == <<>>
PRA   == <<AccessName>>
PD    == <<NameD>>
PDA   == <<NameD, AccessName>>
PF    == <<NameD, NameF>>
PS    == <<NameD, NameS>>
PG    == <<NameG>>
PG0   == <<NameG0>>

\* the local paths that may name something; every other path is absent
LocalPaths == {PRoot, PRA, PD, PDA, PF, PS, PG, PG0}

\* filepath.Walk visits the children of a directory in lexical order
WalkOrder == <<PRA, PD, PG, PG0, PDA, PF, PS>>

\* the rights an Access file gives to users other than the owner, or "bad"
\* for contents access.Parse rejects
Policies == {"none", "L", "RL", "bad"}

\* perm: "wr"      world-readable (mode&04 # 0)
\*       "private" readable by the server, not by others (mode&04 = 0)
\*       "noopen"  the server itself cannot open it
Absent  == [kind |-> "absent", perm |-> "wr", mtime |-> 1, policy |-> "none", content |-> <<>>]
DirNode == [kind |-> "dir", perm |-> "wr", mtime |-> 1, policy |-> "none", content |-> <<>>]
FileNode(perm, mtime, policy, content) ==
    [kind |-> "file", perm |-> perm, mtime |-> mtime, policy |-> policy, content |-> content]
\* neither a directory nor a regular file (a device, a socket)
OtherNode == [kind |-> "other", perm |-> "wr", mtime |-> 1, policy |-> "none", content |-> <<>>]

ContentF  == <<"h", "e">>
ContentG  == <<"h">>
ContentG0 == <<"h", "e", "l">>

\* what the environment may put at each local path
Allowed(p) ==
    IF p \in {PRoot, PD, PS} THEN {DirNode}
    ELSE IF p = PRA THEN {Absent, FileNode("wr", 1, "RL", <<>>)}
    ELSE IF p = PDA THEN
        {Absent, DirNode, FileNode("noopen", 1, "RL", <<>>), FileNode("private", 1, "RL", <<>>)}
            \cup {FileNode("wr", 1, pol, <<>>) : pol \in Policies}
    ELSE IF p = PF THEN
        {Absent, OtherNode} \cup {FileNode("wr", t, "none", ContentF) : t \in 1..MaxTime}
    ELSE IF p = PG THEN {FileNode("wr", 1, "none", ContentG)}
    ELSE \* PG0
        {FileNode(pm, 1, "none", ContentG0) : pm \in {"wr", "private"}}

\* os.Stat: the node at a local path, Absent for a path that names nothing
Stat(p) == IF p \in LocalPaths THEN fs[p] ELSE Absent


----------------------------------------------------------------------------
(* Errors and results *)

Res(err, val) == [err |-> err, val |-> val]

----------------------------------------------------------------------------
(* common.go: whichAccess, readFile, can *)

\* whichAccessFrom, were it to keep scanning past a policy file it found
RECURSIVE whichAccessFarthest(_, _, _)
whichAccessFarthest(user, elems, i) ==
    IF i > Len(elems) THEN Res("ok", <<>>)
    ELSE LET dir  == DropLast(elems, i)
             acc  == Stat(dir \o <<AccessName>>)
             rest == whichAccessFarthest(user, elems, i + 1)
         IN  IF Stat(dir).kind = "absent" THEN Res("NotExist", <<>>)
             ELSE IF Stat(dir).kind # "dir" THEN rest
             ELSE IF acc.kind = "absent" THEN rest
             ELSE IF acc.kind # "file" THEN Res("NotRegular", <<>>)
             ELSE IF acc.perm = "noopen" THEN Res("Open", <<>>)
             ELSE IF rest.err = "ok" /\ rest.val # <<>> THEN rest
             ELSE Res("ok", user \o Slashed(dir \o <<AccessName>>))

\* whichAccessFrom, were it to walk on past a level that does not exist
RECURSIVE whichAccessSkipMissing(_, _, _)
whichAccessSkipMissing(user, elems, i) ==
    IF i > Len(elems) THEN Res("ok", <<>>)
    ELSE LET dir == DropLast(elems, i)
             acc == Stat(dir \o <<AccessName>>)
         IN  IF Stat(dir).kind # "dir" THEN whichAccessSkipMissing(user, elems, i + 1)
             ELSE IF acc.kind = "absent" THEN whichAccessSkipMissing(user, elems, i + 1)
             ELSE IF acc.kind # "file" THEN Res("NotRegular", <<>>)
             ELSE IF acc.perm = "noopen" THEN Res("Open", <<>>)
             ELSE Res("ok", user \o Slashed(dir \o <<AccessName>>))

\* the loop of whichAccess from index i on: val is the Access file's path
\* name, <<>> for none
RECURSIVE whichAccessFrom(_, _, _)
whichAccessFrom(user, elems, i) ==
    IF i > Len(elems) THEN Res("ok", <<>>)
    ELSE LET dir == DropLast(elems, i)
             acc == Stat(dir \o <<AccessName>>)
         IN  IF Stat(dir).kind = "absent" THEN Res("NotExist", <<>>)
             ELSE IF Stat(dir).kind # "dir" THEN whichAccessFrom(user, elems, i + 1)
             ELSE IF acc.kind = "absent" THEN whichAccessFrom(user, elems, i + 1)
             ELSE IF acc.kind # "file" THEN Res("NotRegular", <<>>)
             ELSE IF acc.perm = "noopen" THEN Res("Open", <<>>)
             ELSE Res("ok", user \o Slashed(dir \o <<AccessName>>))

whichAccess(user, elems) == whichAccessFrom(user, elems, 0)

\* readFile, were it to leave out the test of world-readability
readFileAnyMode(name) ==
    LET parsed == Parse(name)
        info   == Stat(parsed.elems)
    IN  IF ~parsed.ok THEN Res("Invalid", Absent)
        ELSE IF info.kind = "absent" THEN Res("NotExist", Absent)
        ELSE IF info.kind = "dir" THEN Res("IsDir", Absent)
        ELSE Res("ok", info)

\* readFile: val is the node read
readFile(name) ==
    LET parsed == Parse(name)
        info   == Stat(parsed.elems)
    IN  IF ~parsed.ok THEN Res("Invalid", Absent)
        ELSE IF info.kind = "absent" THEN Res("NotExist", Absent)
        ELSE IF info.kind = "dir" THEN Res("IsDir", Absent)
        ELSE IF info.perm # "wr" THEN Res("Permission", Absent)
        ELSE Res("ok", info)

\* access.Access.Can for a policy owned by aOwner: the owner may always
\* read and list; an Access file may be read by whoever holds any right
AccessCan(aOwner, policy, requester, right, isAccessFile) ==
    LET granted == IF policy = "RL" THEN {"Read", "List"}
                   ELSE IF policy = "L" THEN {"List"}
                   ELSE {}
    IN  IF requester = aOwner /\ right \in {"Read", "List", "AnyRight"} THEN TRUE
        ELSE IF right = "AnyRight" THEN granted # {}
        ELSE IF right = "Read" /\ isAccessFile THEN granted # {}
        ELSE right \in granted

\* can: val is the answer.  The default policy is the owner's, and a handle
\* that was never dialed has no s.user to ask the name of.
can(caller, right, user, elems) ==
    LET afn  == whichAccess(user, elems)
        data == readFile(afn.val)
        isAF == elems # <<>> /\ elems[Len(elems)] = AccessName
    IN  IF afn.err # "ok" THEN Res(afn.err, FALSE)
        ELSE IF afn.val # <<>> /\ data.err # "ok" THEN Res(data.err, FALSE)
        ELSE IF afn.val # <<>> /\ data.val.policy = "bad" THEN Res("Parse", FALSE)
        ELSE IF caller = NoUser THEN Res("Panic", FALSE)
        ELSE IF afn.val = <<>>
             THEN Res("ok", AccessCan(Owner, "none", caller, right, isAF))
             ELSE Res("ok", AccessCan(Parse(afn.val).user, data.val.policy,
                                      caller, right, isAF))

----------------------------------------------------------------------------
(* store.go: entries and the cache *)

\* s.root, and filepath.Join(s.root, parsed.FilePath())
Root == <<"R">>
LocalName(elems) == Root \o Slashed(elems)
\* the local path a local file name names
LocalElems(file) == NonEmpty(Split(SubSeq(file, Len(Root) + 1, Len(file)), "/"))
\* strings.HasPrefix(file, s.root)
InRoot(file) == Len(file) >= Len(Root) /\ SubSeq(file, 1, Len(Root)) = Root

\* upspinPathFromLocal
upspinPathFromLocal(local) == Owner \o SubSeq(local, Len(Root) + 1, Len(local))

NoEntry == [Name |-> <<>>, SignedName |-> <<>>, Time |-> 0, Attr |-> {},
            Blocks |-> <<>>, Packdata |-> <<>>, Writer |-> <<>>]

\* Factotum.FileSign(DirEntryHash(...)) under the key of the signing user,
\* marshalled by pdMarshal with a zero second signature
pdMarshal(key, e) ==
    <<[key |-> key, name |-> e.SignedName, attr |-> e.Attr, time |-> e.Time]>>

\* DirEntry.MarkIncomplete
MarkIncomplete(e) ==
    [e EXCEPT !.Blocks = <<>>, !.Packdata = <<>>, !.Attr = @ \cup {"Incomplete"}]

\* what entry returns: the entry of a local file, the cache afterwards and
\* whether a signature was computed
EntryRes(err, e, cache, signed) ==
    [err |-> err, e |-> e, cache |-> cache, signed |-> signed]

\* entry, were it to sign a directory's entry and cache it as it does a file's
entryDirLikeFile(cache, caller, file, signOK) ==
    LET p       == LocalElems(file)
        info    == Stat(p)
        modTime == info.mtime
        isDir   == info.kind = "dir"
        name    == upspinPathFromLocal(file)
        hit     == p \in LocalPaths /\ cache[p] # NoEntry
        cache1  == IF hit THEN [cache EXCEPT ![p] = NoEntry] ELSE cache
        bare    == [Name |-> name, SignedName |-> name, Time |-> modTime,
                    Attr |-> IF isDir THEN {"Directory"} ELSE {},
                    Blocks |-> <<>>, Packdata |-> <<>>, Writer |-> Owner]
        blocked == IF isDir THEN bare
                   ELSE [bare EXCEPT !.Blocks =
                       <<[Reference |-> SubSeq(file, Len(Root) + 1, Len(file)),
                          Offset |-> 0, Size |-> Len(info.content)]>>]
        signed  == [blocked EXCEPT !.Packdata = pdMarshal(caller, blocked)]
    IN  IF ~InRoot(file) THEN EntryRes("NotInRoot", NoEntry, cache, FALSE)
        ELSE IF info.kind = "absent" THEN EntryRes("NotExist", NoEntry, cache, FALSE)
        ELSE IF hit /\ cache[p].Time = modTime THEN EntryRes("ok", cache[p], cache, FALSE)
        ELSE IF ~signOK THEN EntryRes("Sign", NoEntry, cache1, FALSE)
        ELSE EntryRes("ok", signed, [cache1 EXCEPT ![p] = signed], TRUE)

\* entry, were it never to use a cached entry
entryNoHit(cache, caller, file, signOK) ==
    LET p       == LocalElems(file)
        info    == Stat(p)
        modTime == info.mtime
        isDir   == info.kind = "dir"
        name    == upspinPathFromLocal(file)
        hit     == ~isDir /\ p \in LocalPaths /\ cache[p] # NoEntry
        \* line 178: a cached entry of another time is removed
        cache1  == IF hit THEN [cache EXCEPT ![p] = NoEntry] ELSE cache
        bare    == [Name |-> name, SignedName |-> name, Time |-> modTime,
                    Attr |-> IF isDir THEN {"Directory"} ELSE {},
                    Blocks |-> <<>>, Packdata |-> <<>>, Writer |-> Owner]
        blocked == [bare EXCEPT !.Blocks =
                       <<[Reference |-> SubSeq(file, Len(Root) + 1, Len(file)),
                          Offset |-> 0, Size |-> Len(info.content)]>>]
        signed  == [blocked EXCEPT !.Packdata = pdMarshal(caller, blocked)]
    IN  IF ~InRoot(file) THEN EntryRes("NotInRoot", NoEntry, cache, FALSE)
        ELSE IF info.kind = "absent" THEN EntryRes("NotExist", NoEntry, cache, FALSE)
        ELSE IF isDir THEN EntryRes("ok", bare, cache1, FALSE)
        ELSE IF ~signOK THEN EntryRes("Sign", NoEntry, cache1, FALSE)
        ELSE EntryRes("ok", signed, [cache1 EXCEPT ![p] = signed], TRUE)


\* entry, were it to return a cached entry whatever its Time
entryKeepStale(cache, caller, file, signOK) ==
    LET p       == LocalElems(file)
        info    == Stat(p)
        modTime == info.mtime
        isDir   == info.kind = "dir"
        name    == upspinPathFromLocal(file)
        hit     == ~isDir /\ p \in LocalPaths /\ cache[p] # NoEntry
        \* line 178: a cached entry of another time is removed
        cache1  == IF hit THEN [cache EXCEPT ![p] = NoEntry] ELSE cache
        bare    == [Name |-> name, SignedName |-> name, Time |-> modTime,
                    Attr |-> IF isDir THEN {"Directory"} ELSE {},
                    Blocks |-> <<>>, Packdata |-> <<>>, Writer |-> Owner]
        blocked == [bare EXCEPT !.Blocks =
                       <<[Reference |-> SubSeq(file, Len(Root) + 1, Len(file)),
                          Offset |-> 0, Size |-> Len(info.content)]>>]
        signed  == [blocked EXCEPT !.Packdata = pdMarshal(caller, blocked)]
    IN  IF ~InRoot(file) THEN EntryRes("NotInRoot", NoEntry, cache, FALSE)
        ELSE IF info.kind = "absent" THEN EntryRes("NotExist", NoEntry, cache, FALSE)
        ELSE IF hit THEN EntryRes("ok", cache[p], cache, FALSE)
        ELSE IF isDir THEN EntryRes("ok", bare, cache1, FALSE)
        ELSE IF ~signOK THEN EntryRes("Sign", NoEntry, cache1, FALSE)
        ELSE EntryRes("ok", signed, [cache1 EXCEPT ![p] = signed], TRUE)


\* dirServer.entry
entry(cache, caller, file, signOK) ==
    LET p       == LocalElems(file)
        info    == Stat(p)
        modTime == info.mtime
        isDir   == info.kind = "dir"
        name    == upspinPathFromLocal(file)
        hit     == ~isDir /\ p \in LocalPaths /\ cache[p] # NoEntry
        \* line 178: a cached entry of another time is removed
        cache1  == IF hit THEN [cache EXCEPT ![p] = NoEntry] ELSE cache
        bare    == [Name |-> name, SignedName |-> name, Time |-> modTime,
                    Attr |-> IF isDir THEN {"Directory"} ELSE {},
                    Blocks |-> <<>>, Packdata |-> <<>>, Writer |-> Owner]
        blocked == [bare EXCEPT !.Blocks =
                       <<[Reference |-> SubSeq(file, Len(Root) + 1, Len(file)),
                          Offset |-> 0, Size |-> Len(info.content)]>>]
        signed  == [blocked EXCEPT !.Packdata = pdMarshal(caller, blocked)]
    IN  IF ~InRoot(file) THEN EntryRes("NotInRoot", NoEntry, cache, FALSE)
        ELSE IF info.kind = "absent" THEN EntryRes("NotExist", NoEntry, cache, FALSE)
        ELSE IF hit /\ cache[p].Time = modTime THEN EntryRes("ok", cache[p], cache, FALSE)
        ELSE IF isDir THEN EntryRes("ok", bare, cache1, FALSE)
        ELSE IF ~signOK THEN EntryRes("Sign", NoEntry, cache1, FALSE)
        ELSE EntryRes("ok", signed, [cache1 EXCEPT ![p] = signed], TRUE)


----------------------------------------------------------------------------
(* store.go: the requests.  Each returns a record
   [err, entries, data, cache, signed]: the error ("ok" for none), the
   entries returned, the bytes or name returned, the cache afterwards and
   the number of signatures computed. *)

Ret(err, entries, data, cache, signed) ==
    [err |-> err, entries |-> entries, data |-> data, cache |-> cache, signed |-> signed]

\* verifyUserRoot
verifyUserRoot(parsed) == parsed.user = Owner

\* dirServer.Lookup
Lookup(cache, caller, pathName, signOK) ==
    LET parsed == Parse(pathName)
        c      == can(caller, "List", parsed.user, parsed.elems)
        er     == entry(cache, caller, LocalName(parsed.elems), signOK)
    IN  IF ~parsed.ok THEN Ret("Invalid", <<>>, <<>>, cache, 0)
        ELSE IF ~verifyUserRoot(parsed) THEN Ret("Invalid", <<>>, <<>>, cache, 0)
        ELSE IF c.err # "ok" THEN Ret(c.err, <<>>, <<>>, cache, 0)
        ELSE IF ~c.val THEN Ret("Private", <<>>, <<>>, cache, 0)
        ELSE IF er.err # "ok" THEN Ret(er.err, <<>>, <<>>, er.cache, 0)
        ELSE Ret("ok", <<er.e>>, <<>>, er.cache, IF er.signed THEN 1 ELSE 0)

\* the names filepath.Walk(dir) passes to the walk function after dir itself
Children(dir) ==
    SelectSeq(WalkOrder,
              LAMBDA p : /\ Len(p) = Len(dir) + 1
                         /\ SubSeq(p, 1, Len(dir)) = dir
                         /\ Stat(p).kind # "absent")

\* walk, were it to leave out the children the caller may not read
RECURSIVE walkOmit(_, _, _, _)
walkOmit(acc, caller, kids, signOK) ==
    IF kids = <<>> THEN acc
    ELSE LET name   == kids[1]
             info   == Stat(name)
             er     == entry(acc.cache, caller, LocalName(name), signOK)
             parsed == Parse(upspinPathFromLocal(LocalName(name)))
             c      == can(caller, "Read", parsed.user, parsed.elems)
             n      == acc.signed + (IF er.signed THEN 1 ELSE 0)
             \* e.MarkIncomplete() acts on the entry entry() returned, which for a
             \* file is the very entry the cache holds
             e2     == IF c.val THEN er.e ELSE MarkIncomplete(er.e)
             cache2 == IF ~c.val /\ info.kind # "dir"
                       THEN [er.cache EXCEPT ![name] = e2]
                       ELSE er.cache
         IN  IF info.kind \notin {"dir", "file"} THEN walkOmit(acc, caller, Tail(kids), signOK)
             ELSE IF er.err # "ok" THEN Ret(er.err, acc.entries, <<>>, er.cache, n)
             ELSE IF ~parsed.ok THEN Ret("Invalid", acc.entries, <<>>, er.cache, n)
             ELSE IF c.err # "ok" THEN Ret(c.err, acc.entries, <<>>, er.cache, n)
             ELSE IF ~c.val THEN walkOmit(Ret("ok", acc.entries, <<>>, er.cache, n),
                                          caller, Tail(kids), signOK)
             ELSE walkOmit(Ret("ok", Append(acc.entries, e2), <<>>, cache2, n),
                           caller, Tail(kids), signOK)

\* the walk function of listDir over the children kids, from the result so far
RECURSIVE walk(_, _, _, _)
walk(acc, caller, kids, signOK) ==
    IF kids = <<>> THEN acc
    ELSE LET name   == kids[1]
             info   == Stat(name)
             er     == entry(acc.cache, caller, LocalName(name), signOK)
             parsed == Parse(upspinPathFromLocal(LocalName(name)))
             c      == can(caller, "Read", parsed.user, parsed.elems)
             n      == acc.signed + (IF er.signed THEN 1 ELSE 0)
             \* e.MarkIncomplete() acts on the entry entry() returned, which for a
             \* file is the very entry the cache holds
             e2     == IF c.val THEN er.e ELSE MarkIncomplete(er.e)
             cache2 == IF ~c.val /\ info.kind # "dir"
                       THEN [er.cache EXCEPT ![name] = e2]
                       ELSE er.cache
         IN  IF info.kind \notin {"dir", "file"} THEN walk(acc, caller, Tail(kids), signOK)
             ELSE IF er.err # "ok" THEN Ret(er.err, acc.entries, <<>>, er.cache, n)
             ELSE IF ~parsed.ok THEN Ret("Invalid", acc.entries, <<>>, er.cache, n)
             ELSE IF c.err # "ok" THEN Ret(c.err, acc.entries, <<>>, er.cache, n)
             ELSE walk(Ret("ok", Append(acc.entries, e2), <<>>, cache2, n),
                       caller, Tail(kids), signOK)

\* listDir, were it to walk the directory before it tests the list right
listDirWalkFirst(cache, caller, name, signOK) ==
    LET parsed == Parse(name)
        c      == can(caller, "List", parsed.user, parsed.elems)
        dir    == parsed.elems
    IN  IF ~parsed.ok THEN Ret("Invalid", <<>>, <<>>, cache, 0)
        ELSE IF c.err # "ok" THEN Ret(c.err, <<>>, <<>>, cache, 0)
        ELSE IF Stat(dir).kind # "dir" THEN
            IF c.val THEN Ret("ok", <<>>, <<>>, cache, 0)
                     ELSE Ret("Private", <<>>, <<>>, cache, 0)
        ELSE LET w == walk(Ret("ok", <<>>, <<>>, cache, 0), caller, Children(dir), signOK)
             IN  IF c.val THEN w ELSE Ret("Private", <<>>, <<>>, w.cache, 0)

\* dirServer.listDir
listDir(cache, caller, name, signOK) ==
    LET parsed == Parse(name)
        c      == can(caller, "List", parsed.user, parsed.elems)
        dir    == parsed.elems
    IN  IF ~parsed.ok THEN Ret("Invalid", <<>>, <<>>, cache, 0)
        ELSE IF c.err # "ok" THEN Ret(c.err, <<>>, <<>>, cache, 0)
        ELSE IF ~c.val THEN Ret("Private", <<>>, <<>>, cache, 0)
        ELSE IF Stat(dir).kind # "dir" THEN Ret("ok", <<>>, <<>>, cache, 0)
        ELSE walk(Ret("ok", <<>>, <<>>, cache, 0), caller, Children(dir), signOK)

\* DecodeRef, were it to split at the first hyphen
DecodeRefFirst(ref) ==
    LET splitRef == Split(ref, "-")
    IN  <<splitRef[1], Join(Tail(splitRef), "-")>>

\* the decoding of a reference in Get: <<relative path, offset>>
DecodeRef(ref) ==
    LET splitRef == Split(ref, "-")
    IN  <<Join(SubSeq(splitRef, 1, Len(splitRef) - 1), "-"), splitRef[Len(splitRef)]>>

\* storeServer.Get
Get(cache, caller, ref) ==
    LET dec      == DecodeRef(ref)
        pathName == Owner \o dec[1]
        parsed   == Parse(pathName)
        c        == can(caller, "Read", parsed.user, parsed.elems)
        data     == readFile(pathName \o <<"-">> \o dec[2])
    IN  IF caller = NoUser THEN Ret("NotDialed", <<>>, <<>>, cache, 0)
        ELSE IF ~parsed.ok THEN Ret("Invalid", <<>>, <<>>, cache, 0)
        ELSE IF c.err # "ok" THEN Ret(c.err, <<>>, <<>>, cache, 0)
        ELSE IF ~c.val THEN Ret("PermissionDenied", <<>>, <<>>, cache, 0)
        ELSE IF data.err # "ok" THEN Ret(data.err, <<>>, <<>>, cache, 0)
        ELSE Ret("ok", <<>>, data.val.content, cache, 0)

\* dirServer.WhichAccess: entry() is given the Access file's path name,
\* not a local file name
WhichAccess(cache, caller, pathName, signOK) ==
    LET parsed == Parse(pathName)
        c      == can(caller, "AnyRight", parsed.user, parsed.elems)
        afn    == whichAccess(parsed.user, parsed.elems)
        er     == entry(cache, caller, afn.val, signOK)
    IN  IF ~parsed.ok THEN Ret("Invalid", <<>>, <<>>, cache, 0)
        ELSE IF ~verifyUserRoot(parsed) THEN Ret("Invalid", <<>>, <<>>, cache, 0)
        ELSE IF c.err # "ok" THEN Ret(c.err, <<>>, <<>>, cache, 0)
        ELSE IF ~c.val THEN Ret("PermissionDenied", <<>>, <<>>, cache, 0)
        ELSE IF afn.err # "ok" THEN Ret(afn.err, <<>>, <<>>, cache, 0)
        ELSE IF er.err # "ok" THEN Ret(er.err, <<>>, <<>>, er.cache, 0)
        ELSE Ret("ok", <<er.e>>, <<>>, er.cache, IF er.signed THEN 1 ELSE 0)

\* the methods that are not implemented
storePut(cache)    == Ret("ReadOnly", <<>>, <<>>, cache, 0)
storeDelete(cache) == Ret("ReadOnly", <<>>, <<>>, cache, 0)
\* dirDelete, were it to drop the cached entries
dirDeleteDrops(cache) == Ret("ReadOnly", <<>>, <<>>, [p \in LocalPaths |-> NoEntry], 0)
dirDelete(cache)   == Ret("ReadOnly", <<>>, <<>>, cache, 0)
dirPut(cache)      == Ret("ReadOnly", <<>>, <<>>, cache, 0)

----------------------------------------------------------------------------
(* The state machine *)

\* the path names requests are made with
LookupNames ==
    {PathOf(Owner, p) : p \in {PRoot, PD, PDA, PF, PS, PS \o <<<<"x">>>>}}
        \cup {PathOf(Other, PF)}
ListNames == {PathOf(Owner, PD), PathOf(Owner, PF), PathOf(Owner, PS), PathOf(Other, PD)}
WhichNames == {PathOf(Owner, PF), PathOf(Owner, PS \o <<<<"x">>>>), PathOf(Other, PF)}
\* the references Get is called with: references of the form path-offset,
\* and the references entries carry
Refs == {Slashed(PG0), Slashed(PG), Slashed(PF), Slashed(PF) \o <<"-", "0">>}
MutatingOps == {"Store.Put", "Store.Delete", "Dir.Put", "Dir.Delete"}

\* the request whose answer is on its way to the caller; Idle when none is
\* (before is the cache as the request found it)
Last(op, caller, arg, r) ==
    [op |-> op, caller |-> caller, arg |-> arg, err |-> r.err,
     entries |-> r.entries, data |-> r.data, signed |-> r.signed,
     before |-> dirEntries, handle |-> 0]
Idle == [op |-> "none", caller |-> NoUser, arg |-> <<>>, err |-> "ok",
         entries |-> <<>>, data |-> <<>>, signed |-> 0,
         before |-> [p \in LocalPaths |-> NoEntry], handle |-> 0]

\* New: the Server struct before any Dial; its user is nil
New == [server |-> Owner, root |-> Root, defaultAccess |-> Owner,
        dirEntries |-> "lru", user |-> NoUser]

\* the goroutines that run requests step by step
Procs == {1, 2}
\* the entries alive at a time: the one the cache holds for d/f and one per
\* goroutine; an entry nothing refers to any more is garbage and its place
\* in the heap is free
NObjs == Cardinality(Procs) + 1
\* a goroutine that runs no request
NoProc == [pc |-> "idle", op |-> "none", caller |-> NoUser, info |-> Absent,
           e |-> 0]

Init ==
    /\ fs = [p \in LocalPaths |->
                IF p \in {PRoot, PD, PS} THEN DirNode
                ELSE IF p = PG THEN FileNode("wr", 1, "none", ContentG)
                ELSE IF p = PG0 THEN FileNode("wr", 1, "none", ContentG0)
                ELSE Absent]
    /\ dirEntries = [p \in LocalPaths |-> NoEntry]
    /\ last = Idle
    /\ handles = <<New>>
    /\ heap = [i \in 1..NObjs |-> NoEntry]
    /\ slot = 0
    /\ procs = [pr \in Procs |-> NoProc]

\* something outside the server changes the file tree: a file is created,
\* removed, touched, rewritten or has its mode changed
EnvChange ==
    /\ last = Idle
    /\ \E p \in LocalPaths : \E node \in Allowed(p) :
        /\ node # fs[p]
        /\ fs' = [fs EXCEPT ![p] = node]
    /\ UNCHANGED <<dirEntries, last>>
    /\ UNCHANGED stepVars

DoLookup ==
    /\ last = Idle
    /\ \E caller \in Callers : \E pathName \in LookupNames : \E signOK \in BOOLEAN :
        LET r == Lookup(dirEntries, caller, pathName, signOK)
        IN  /\ dirEntries' = r.cache
            /\ last' = Last("Lookup", caller, pathName, r)
    /\ UNCHANGED fs
    /\ UNCHANGED stepVars

DoListDir ==
    /\ last = Idle
    /\ \E caller \in Callers : \E name \in ListNames : \E signOK \in BOOLEAN :
        LET r == listDir(dirEntries, caller, name, signOK)
        IN  /\ dirEntries' = r.cache
            /\ last' = Last("listDir", caller, name, r)
    /\ UNCHANGED fs
    /\ UNCHANGED stepVars

DoGet ==
    /\ last = Idle
    /\ \E caller \in Callers : \E ref \in Refs :
        LET r == Get(dirEntries, caller, ref)
        IN  /\ dirEntries' = r.cache
            /\ last' = Last("Get", caller, ref, r)
    /\ UNCHANGED fs
    /\ UNCHANGED stepVars

DoWhichAccess ==
    /\ last = Idle
    /\ \E caller \in Callers : \E pathName \in WhichNames : \E signOK \in BOOLEAN :
        LET r == WhichAccess(dirEntries, caller, pathName, signOK)
        IN  /\ dirEntries' = r.cache
            /\ last' = Last("WhichAccess", caller, pathName, r)
    /\ UNCHANGED fs
    /\ UNCHANGED stepVars

\* a call of whichAccess on a parsed path name, as can makes it
DowhichAccess ==
    /\ last = Idle
    /\ \E pathName \in LookupNames :
        LET parsed == Parse(pathName)
            afn    == whichAccess(parsed.user, parsed.elems)
        IN  last' = Last("whichAccess", NoUser, pathName,
                         Ret(afn.err, <<>>, afn.val, dirEntries, 0))
    /\ UNCHANGED <<fs, dirEntries>>
    /\ UNCHANGED stepVars

DoMutate ==
    /\ last = Idle
    /\ \E caller \in Callers : \E op \in MutatingOps :
        LET r == IF op = "Store.Put" THEN storePut(dirEntries)
                 ELSE IF op = "Store.Delete" THEN storeDelete(dirEntries)
                 ELSE IF op = "Dir.Delete" THEN dirDelete(dirEntries)
                 ELSE dirPut(dirEntries)
        IN  /\ dirEntries' = r.cache
            /\ last' = Last(op, caller, <<>>, r)
    /\ UNCHANGED fs
    /\ UNCHANGED stepVars

\* the answer reaches the caller
Return ==
    /\ last # Idle
    /\ last' = Idle
    /\ UNCHANGED <<fs, dirEntries>>
    /\ UNCHANGED stepVars

Next ==
    \/ EnvChange
    \/ DoLookup
    \/ DoListDir
    \/ DoGet
    \/ DoWhichAccess
    \/ DowhichAccess
    \/ DoMutate
    \/ Return

Spec == Init /\ [][Next]_vars

----------------------------------------------------------------------------
(* The decoding of references on its own: Get's split of a reference
   path-offset, for every relative path and offset within the bounds *)

RefTokens == {"/", "-", "g", "0"}
Digits    == {"0", "1"}
\* the sequences over a set of at most n tokens
SeqsUpTo(S, n) == UNION {[1..k -> S] : k \in 0..n}
RelPaths == SeqsUpTo(RefTokens, MaxRefLen)
Offsets  == SeqsUpTo(Digits, MaxOffLen) \ {<<>>}

\* a reference is composed of a relative path and an offset and decoded
DoDecode ==
    /\ last = Idle
    /\ \E rel \in RelPaths : \E off \in Offsets :
        last' = [Idle EXCEPT !.op = "decode",
                             !.arg = <<rel, off>>,
                             !.data = DecodeRef(rel \o <<"-">> \o off)]
    /\ UNCHANGED <<fs, dirEntries>>
    /\ UNCHANGED stepVars

NextDecode == DoDecode \/ Return

SpecDecode == Init /\ [][NextDecode]_vars

----------------------------------------------------------------------------
(* entry() step by step: two goroutines run Lookup("U/d/f") or the visit of
   d/f by the walk function of listDir("U/d") while the file is modified.
   The cache is a mutex-protected LRU, so Get, Remove and Add are each one
   step; the cache holds pointers, so an entry is an object of the heap and
   the slot of d/f and the goroutines hold its index. *)

FileF == LocalName(PF)

\* store.go:182-222: the entry built and signed from the os.Stat result info
newEntry(caller, file, info) ==
    LET name    == upspinPathFromLocal(file)
        blocked == [Name |-> name, SignedName |-> name, Time |-> info.mtime,
                    Attr |-> {},
                    Blocks |-> <<[Reference |-> SubSeq(file, Len(Root) + 1, Len(file)),
                                  Offset |-> 0, Size |-> Len(info.content)]>>,
                    Packdata |-> <<>>, Writer |-> Owner]
    IN  [blocked EXCEPT !.Packdata = pdMarshal(caller, blocked)]

\* the test of store.go:175, were it to accept a cached entry of any Time
entryHitAnyTime(v, modTime) == TRUE

\* store.go:175: entry.Time == modTime
entryHit(v, modTime) == v.Time = modTime

\* the heap h once the entries nothing refers to are collected
Collect(h, sl, prs) ==
    [i \in 1..NObjs |->
        IF i = sl \/ \E pr \in Procs : prs[pr].e = i THEN h[i] ELSE NoEntry]
\* the place of the heap a new entry is allocated at
FreeObj ==
    CHOOSE i \in 1..NObjs :
        heap[i] = NoEntry /\ \A j \in 1..(i-1) : heap[j] # NoEntry

\* a goroutine's request has finished
Finished(pr) == [procs EXCEPT ![pr] = NoProc]

InitConc ==
    /\ fs = [p \in LocalPaths |->
                IF p \in {PRoot, PD, PS} THEN DirNode
                ELSE IF p = PG THEN FileNode("wr", 1, "none", ContentG)
                ELSE IF p = PG0 THEN FileNode("wr", 1, "none", ContentG0)
                ELSE IF p = PDA THEN FileNode("wr", 1, "L", <<>>)
                ELSE IF p = PF THEN FileNode("wr", 1, "none", ContentF)
                ELSE Absent]
    /\ dirEntries = [p \in LocalPaths |-> NoEntry]
    /\ last = Idle
    /\ handles = <<New>>
    /\ heap = [i \in 1..NObjs |-> NoEntry]
    /\ slot = 0
    /\ procs = [pr \in Procs |-> NoProc]

\* the regular file d/f is touched, rewritten, removed or created
ConcEnv ==
    /\ \E node \in Allowed(PF) \ {OtherNode} :
        /\ node # fs[PF]
        /\ fs' = [fs EXCEPT ![PF] = node]
    /\ UNCHANGED <<dirEntries, last, stepVars>>

\* a request starts: Lookup and listDir test the list right, then Lookup
\* calls entry() for d/f and the walk function does for the regular file d/f
ConcCall(pr) ==
    /\ procs[pr].pc = "idle"
    /\ \E caller \in {Owner, Other} : \E op \in {"Lookup", "listDir"} :
        LET c == can(caller, "List", Owner, IF op = "Lookup" THEN PF ELSE PD)
        IN  /\ c = Res("ok", TRUE)
            /\ op = "listDir" => Stat(PF).kind = "file"
            /\ procs' = [procs EXCEPT ![pr] = [NoProc EXCEPT !.pc = "stat", !.op = op,
                                                             !.caller = caller]]
    /\ UNCHANGED <<fs, dirEntries, last, handles, heap, slot>>

\* store.go:161-165: os.Stat(file)
entryStat(pr) ==
    /\ procs[pr].pc = "stat"
    /\ procs' = IF Stat(PF).kind = "absent"
                THEN Finished(pr)
                ELSE [procs EXCEPT ![pr].pc = "get", ![pr].info = Stat(PF)]
    /\ UNCHANGED <<fs, dirEntries, last, handles, heap, slot>>

\* store.go:172-177: s.dirEntries.Get(file) and the comparison of the Time
entryGet(pr) ==
    /\ procs[pr].pc = "get"
    /\ procs' = IF slot # 0 /\ entryHit(heap[slot], procs[pr].info.mtime)
                THEN [procs EXCEPT ![pr].pc = "ret", ![pr].e = slot]
                ELSE IF slot # 0 THEN [procs EXCEPT ![pr].pc = "remove"]
                ELSE [procs EXCEPT ![pr].pc = "sign"]
    /\ UNCHANGED <<fs, dirEntries, last, handles, heap, slot>>

\* store.go:178: s.dirEntries.Remove(file)
entryRemove(pr) ==
    /\ procs[pr].pc = "remove"
    /\ slot' = 0
    /\ procs' = [procs EXCEPT ![pr].pc = "sign"]
    /\ heap' = Collect(heap, slot', procs')
    /\ UNCHANGED <<fs, dirEntries, last, handles>>

\* store.go:182-222: the entry is built from the os.Stat result and signed,
\* or signing fails and entry() returns the error
entrySign(pr) ==
    /\ procs[pr].pc = "sign"
    /\ \/ /\ procs' = Finished(pr)
          /\ heap' = heap
       \/ /\ heap' = [heap EXCEPT ![FreeObj] =
                         newEntry(procs[pr].caller, FileF, procs[pr].info)]
          /\ procs' = [procs EXCEPT ![pr].pc = "add", ![pr].e = FreeObj]
    /\ UNCHANGED <<fs, dirEntries, last, handles, slot>>

\* store.go:224: s.dirEntries.Add(file, entry)
entryAdd(pr) ==
    /\ procs[pr].pc = "add"
    /\ slot' = procs[pr].e
    /\ procs' = [procs EXCEPT ![pr].pc = "ret"]
    /\ heap' = Collect(heap, slot', procs')
    /\ UNCHANGED <<fs, dirEntries, last, handles>>

\* entry() has returned the entry: Lookup returns it; the walk function
\* tests the read right and marks the entry incomplete in place when it is
\* refused (store.go:311-316).  The request is then over.
ConcFinish(pr) ==
    /\ procs[pr].pc = "ret"
    /\ procs' = Finished(pr)
    /\ LET c == can(procs[pr].caller, "Read", Owner, PF)
           h == IF procs[pr].op = "listDir" /\ c = Res("ok", FALSE)
                THEN [heap EXCEPT ![procs[pr].e] = MarkIncomplete(@)]
                ELSE heap
       IN  heap' = Collect(h, slot, procs')
    /\ UNCHANGED <<fs, dirEntries, last, handles, slot>>

NextConc ==
    \/ ConcEnv
    \/ \E pr \in Procs :
        \/ ConcCall(pr)
        \/ entryStat(pr)
        \/ entryGet(pr)
        \/ entryRemove(pr)
        \/ entrySign(pr)
        \/ entryAdd(pr)
        \/ ConcFinish(pr)

SpecConc == InitConc /\ [][NextConc]_vars

----------------------------------------------------------------------------
(* Dial: handles are made from the Server struct of New and from one
   another, and requests are made through them.  A handle is a Server
   struct; its field dirEntries is the pointer to the one cache. *)

\* Dial, were it to set the user of the struct it is called on before
\* copying it
DialInPlace(hs, h, cfg) ==
    Append([hs EXCEPT ![h].user = cfg], [hs[h] EXCEPT !.user = cfg])

\* storeServer.Dial and dirServer.Dial on handle h with the config of user
\* cfg: dialed := *s.Server; dialed.user = cfg
Dial(hs, h, cfg) == Append(hs, [hs[h] EXCEPT !.user = cfg])

\* the tree holds d/Access, which lets others list, and the file d/f
InitDial == InitConc

\* the policy file d/Access is rewritten to grant others nothing, the list
\* right, or the read and list rights
DialEnv ==
    /\ last = Idle
    /\ \E pol \in {"none", "L", "RL"} :
        /\ fs[PDA].policy # pol
        /\ fs' = [fs EXCEPT ![PDA] = FileNode("wr", 1, pol, <<>>)]
    /\ UNCHANGED <<dirEntries, last, stepVars>>

DoDial ==
    /\ last = Idle
    /\ Len(handles) < MaxHandles
    /\ \E h \in 1..Len(handles) : \E cfg \in {Owner, Other} :
        /\ handles' = Dial(handles, h, cfg)
        /\ last' = [Idle EXCEPT !.op = "Dial", !.caller = cfg, !.handle = h]
    /\ UNCHANGED <<fs, dirEntries, heap, slot, procs>>

\* Lookup through handle h: the method runs on that handle's struct
DialLookup ==
    /\ last = Idle
    /\ \E h \in 1..Len(handles) : \E pathName \in {PathOf(Owner, PF), PathOf(Owner, PD)} :
       \E signOK \in BOOLEAN :
        LET r == Lookup(dirEntries, handles[h].user, pathName, signOK)
        IN  /\ dirEntries' = r.cache
            /\ last' = [Last("Lookup", handles[h].user, pathName, r) EXCEPT !.handle = h]
    /\ UNCHANGED <<fs, stepVars>>

\* Get through handle h
DialGet ==
    /\ last = Idle
    /\ \E h \in 1..Len(handles) : \E ref \in {Slashed(PF) \o <<"-", "0">>, Slashed(PG0)} :
        LET r == Get(dirEntries, handles[h].user, ref)
        IN  /\ dirEntries' = r.cache
            /\ last' = [Last("Get", handles[h].user, ref, r) EXCEPT !.handle = h]
    /\ UNCHANGED <<fs, stepVars>>

NextDial ==
    \/ DialEnv
    \/ DoDial
    \/ DialLookup
    \/ DialGet
    \/ Return

SpecDial == InitDial /\ [][NextDial]_vars

----------------------------------------------------------------------------
(* Properties *)

\* the parsed path name of the request in last
LastParsed == Parse(last.arg)
LastElems  == LastParsed.elems

\* the levels whichAccess visits on a path, nearest first
Levels(elems) == 0..Len(elems)
\* level i is a directory holding something named Access
HasAccessEntry(elems, i) ==
    /\ Stat(DropLast(elems, i)).kind = "dir"
    /\ Stat(DropLast(elems, i) \o <<AccessName>>).kind # "absent"
\* level i is a directory holding a regular file named Access
HasAccessFile(elems, i) ==
    /\ Stat(DropLast(elems, i)).kind = "dir"
    /\ Stat(DropLast(elems, i) \o <<AccessName>>).kind = "file"
AccessNameAt(user, elems, i) == user \o Slashed(DropLast(elems, i) \o <<AccessName>>)

\* C1, as stated: for every path that exists with all its ancestor
\* directories, whichAccess returns without error the path name of the
\* regular Access file of the nearest enclosing directory that has one, and
\* the empty name when no level has one.
C1_NearestAsStated ==
    (/\ last.op = "whichAccess"
     /\ \A i \in Levels(LastElems) :
            Stat(DropLast(LastElems, i)).kind # "absent")
    => /\ last.err = "ok"
       /\ \A i \in Levels(LastElems) :
            (/\ HasAccessFile(LastElems, i)
             /\ \A j \in 0..(i-1) : ~HasAccessFile(LastElems, j))
            => last.data = AccessNameAt(LastParsed.user, LastElems, i)
       /\ (\A i \in Levels(LastElems) : ~HasAccessFile(LastElems, i))
            => last.data = <<>>

\* C1, amended: for every path that itself exists, whichAccess stops at the
\* nearest level that holds anything named Access: it returns that file's
\* path name when it is a regular file the server can open and fails
\* otherwise (never going on to a farther ancestor), and returns the empty
\* name without error when no level holds one.
C1_Nearest ==
    (/\ last.op = "whichAccess"
     /\ Stat(LastElems).kind # "absent")
    => /\ \A i \in Levels(LastElems) :
            (/\ HasAccessEntry(LastElems, i)
             /\ \A j \in 0..(i-1) : ~HasAccessEntry(LastElems, j))
            => LET acc == Stat(DropLast(LastElems, i) \o <<AccessName>>)
               IN  IF acc.kind = "file" /\ acc.perm # "noopen"
                   THEN /\ last.err = "ok"
                        /\ last.data = AccessNameAt(LastParsed.user, LastElems, i)
                   ELSE last.err # "ok" /\ last.data = <<>>
       /\ (\A i \in Levels(LastElems) : ~HasAccessEntry(LastElems, i))
            => last.err = "ok" /\ last.data = <<>>

\* a nearer and a farther policy file both exist, and the nearer is returned
C1_Witness ==
    /\ last.op = "whichAccess"
    /\ last.arg = PathOf(Owner, PF)
    /\ fs[PF].kind = "file"
    /\ fs[PRA].kind = "file"
    /\ fs[PDA].kind = "file"
    /\ last.err = "ok"
    /\ last.data = PathOf(Owner, PDA)

\* the requests that begin with a permission check on the path they name
GatedOps == {"Lookup", "listDir", "WhichAccess"}

\* C2: when the queried path names nothing on the local file system,
\* whichAccess fails, and so do can and every request gated by it; no
\* policy file name, entry or content is returned.
C2_MissingLevelFails ==
    /\ (/\ last.op \in GatedOps \cup {"whichAccess"}
        /\ LastParsed.ok
        /\ Stat(LastElems).kind = "absent")
       => /\ last.err # "ok"
          /\ last.entries = <<>>
          /\ last.data = <<>>
          /\ \A c \in Callers : \A right \in {"Read", "List", "AnyRight"} :
                can(c, right, LastParsed.user, LastElems).err # "ok"
    /\ (/\ last.op = "Get"
        /\ Parse(Owner \o DecodeRef(last.arg)[1]).ok
        /\ Stat(Parse(Owner \o DecodeRef(last.arg)[1]).elems).kind = "absent")
       => last.err # "ok" /\ last.data = <<>>

\* a path under an existing directory that has a policy file names nothing,
\* and the request for it fails
C2_Witness ==
    /\ last.op = "Lookup"
    /\ last.caller = Owner
    /\ last.arg = PathOf(Owner, PS \o <<<<"x">>>>)
    /\ fs[PDA].kind = "file"
    /\ fs[PDA].perm = "wr"
    /\ fs[PDA].policy = "RL"
    /\ last.err = "NotExist"

----------------------------------------------------------------------------
\* the local path a Lookup or listDir request names
LastLocal == LastElems

\* C3: after a Lookup of a regular file has returned an entry, a second
\* Lookup of the same path made next, by any caller, that returns an entry
\* returns one with the same Time and the same Packdata; it returns the
\* cached entry as it is, computes no signature and leaves the cache alone.
C3_LookupIdempotent ==
    (/\ last.op = "Lookup"
     /\ last.err = "ok"
     /\ Stat(LastLocal).kind = "file")
    => \A c2 \in Callers : \A signOK \in BOOLEAN :
          LET r2 == Lookup(dirEntries, c2, last.arg, signOK)
          IN  r2.err = "ok"
              => /\ r2.entries[1].Time = last.entries[1].Time
                 /\ r2.entries[1].Packdata = last.entries[1].Packdata
                 /\ r2.entries[1] = dirEntries[LastLocal]
                 /\ r2.signed = 0
                 /\ r2.cache = dirEntries

\* a Lookup has just built and signed the entry of a regular file, and the
\* same Lookup by another user succeeds
C3_Witness ==
    /\ last.op = "Lookup"
    /\ last.err = "ok"
    /\ last.caller = Owner
    /\ last.arg = PathOf(Owner, PF)
    /\ fs[PF].kind = "file"
    /\ last.signed = 1
    /\ last.entries[1].Packdata # <<>>
    /\ Lookup(dirEntries, Other, last.arg, FALSE).err = "ok"

\* the cache slot of a path held an entry of another time than the file's
StaleBefore(p) ==
    /\ fs[p].kind = "file"
    /\ last.before[p] # NoEntry
    /\ last.before[p].Time # fs[p].mtime

\* a Lookup whose entry() call reaches a file with a stale slot never leaves
\* the old entry in the slot; when the call succeeds it has signed a new
\* entry whose Time is the modification time, and the slot holds that entry
StaleReplacedByLookup ==
    (/\ last.op = "Lookup"
     /\ last.arg = PathOf(Owner, PF)
     /\ StaleBefore(PF)
     /\ last.err \in {"ok", "Sign"})
    => /\ dirEntries[PF] # last.before[PF]
       /\ dirEntries[PF] # NoEntry => dirEntries[PF].Time = fs[PF].mtime
       /\ last.err = "ok"
            => /\ last.signed = 1
               /\ last.entries[1].Time = fs[PF].mtime
               /\ last.entries[1].Packdata # <<>>
               /\ dirEntries[PF] = last.entries[1]
       /\ last.err = "Sign" => dirEntries[PF] = NoEntry

\* the same for the entry() call listDir makes for the file: after a
\* listing of its directory that succeeded the slot holds an entry of the
\* file's modification time
StaleReplacedByListing ==
    (/\ last.op = "listDir"
     /\ LastElems = PD
     /\ StaleBefore(PF)
     /\ last.err = "ok")
    => /\ dirEntries[PF] # NoEntry
       /\ dirEntries[PF].Time = fs[PF].mtime
       /\ last.signed >= 1

\* C4: when the cache slot of a regular file holds an entry of another
\* Time than the file's modification time, the next entry() call for the
\* file removes that entry, and when it succeeds it has built and signed an
\* entry whose Time is the modification time and stored it: afterwards the
\* slot never holds the old version.
C4_StaleReplaced == StaleReplacedByLookup /\ StaleReplacedByListing

\* the file was touched after its entry was cached, and a Lookup replaced
\* the entry
C4_Witness ==
    /\ last.op = "Lookup"
    /\ last.arg = PathOf(Owner, PF)
    /\ StaleBefore(PF)
    /\ last.before[PF].Time = 1
    /\ last.err = "ok"
    /\ dirEntries[PF].Time = 2

----------------------------------------------------------------------------
\* the local file Get reads for a reference: the path name made of the
\* owner, the decoded relative path, a hyphen and the decoded offset
GetPath(ref)   == Parse(Owner \o DecodeRef(ref)[1])
GetTarget(ref) == Parse(Owner \o DecodeRef(ref)[1] \o <<"-">> \o DecodeRef(ref)[2])

\* C5: Get returns no bytes of a local file that is not world-readable: the
\* call fails, and it fails with a permission error when the policy in
\* force gives the caller the read right.
C5_WorldReadableOnly ==
    (/\ last.op = "Get"
     /\ GetTarget(last.arg).ok
     /\ Stat(GetTarget(last.arg).elems).kind \in {"file", "other"}
     /\ Stat(GetTarget(last.arg).elems).perm # "wr")
    => /\ last.err # "ok"
       /\ last.data = <<>>
       /\ (/\ last.caller # NoUser
           /\ GetPath(last.arg).ok
           /\ can(last.caller, "Read", GetPath(last.arg).user,
                  GetPath(last.arg).elems) = Res("ok", TRUE))
          => last.err = "Permission"

\* the root policy file gives the other user the read right, the file is
\* not world-readable, and Get by that user is refused
C5_Witness ==
    /\ last.op = "Get"
    /\ last.caller = Other
    /\ last.arg = Slashed(PG0)
    /\ fs[PRA].kind = "file"
    /\ fs[PRA].policy = "RL"
    /\ fs[PG0].kind = "file"
    /\ fs[PG0].perm = "private"
    /\ can(Other, "Read", Owner, PG) = Res("ok", TRUE)
    /\ last.err = "Permission"

\* the immediate children of a directory that are regular files or directories
ListedChildren(dir) ==
    {p \in LocalPaths : /\ Len(p) = Len(dir) + 1
                        /\ SubSeq(p, 1, Len(dir)) = dir
                        /\ fs[p].kind \in {"file", "dir"}}

\* C6: a listing of a directory that succeeds returns exactly one entry for
\* every immediate child that is a regular file or a directory and no other
\* entry; the entry of a child the caller may not read is there, marked
\* incomplete and without blocks.
C6_ListOneLevel ==
    (/\ last.op = "listDir"
     /\ last.err = "ok"
     /\ Stat(LastElems).kind = "dir")
    => /\ Len(last.entries) = Cardinality(ListedChildren(LastElems))
       /\ \A p \in ListedChildren(LastElems) :
            \E i \in 1..Len(last.entries) :
                /\ last.entries[i].Name = PathOf(Owner, p)
                /\ can(last.caller, "Read", Owner, p) = Res("ok", FALSE)
                     => /\ "Incomplete" \in last.entries[i].Attr
                        /\ last.entries[i].Blocks = <<>>

\* a user who may list but not read lists a directory holding a policy
\* file, a regular file and a directory: three entries, the file's incomplete
C6_Witness ==
    /\ last.op = "listDir"
    /\ last.caller = Other
    /\ last.arg = PathOf(Owner, PD)
    /\ fs[PF].kind = "file"
    /\ fs[PDA].kind = "file"
    /\ fs[PDA].policy = "L"
    /\ last.err = "ok"
    /\ Len(last.entries) = 3
    /\ last.entries[1].Name = PathOf(Owner, PDA)
    /\ "Incomplete" \notin last.entries[1].Attr
    /\ last.entries[2].Name = PathOf(Owner, PF)
    /\ "Incomplete" \in last.entries[2].Attr
    /\ last.entries[2].Blocks = <<>>
    /\ last.entries[3].Name = PathOf(Owner, PS)

\* C7: a listing by a caller without the list right on the directory fails
\* with Private, returns no entry, computes no signature and leaves the
\* cache as it found it.
C7_ListDenied ==
    (/\ last.op = "listDir"
     /\ LastParsed.ok
     /\ can(last.caller, "List", LastParsed.user, LastElems) = Res("ok", FALSE))
    => /\ last.err = "Private"
       /\ last.entries = <<>>
       /\ last.signed = 0
       /\ dirEntries = last.before

\* the policy file gives the other user nothing, the directory holds a file
\* that is not cached, and the user's listing is refused
C7_Witness ==
    /\ last.op = "listDir"
    /\ last.caller = Other
    /\ last.arg = PathOf(Owner, PD)
    /\ fs[PDA].kind = "file"
    /\ fs[PDA].perm = "wr"
    /\ fs[PDA].policy = "none"
    /\ fs[PF].kind = "file"
    /\ dirEntries[PF] = NoEntry
    /\ last.err = "Private"

\* C8: decoding the reference made of a relative path, a hyphen and a
\* decimal offset gives back the relative path and the offset, whatever
\* hyphens the relative path holds.
C8_DecodeRoundTrip ==
    last.op = "decode" => last.data = last.arg

\* a relative path holding a hyphen was decoded
C8_Witness ==
    /\ last.op = "decode"
    /\ last.arg[1] = <<"/", "-", "g">>
    /\ last.arg[2] = <<"1">>
    /\ last.data = <<<<"/", "-", "g">>, <<"1">>>>

\* C9: for a world-readable regular file with no policy file anywhere,
\* Lookup by the owner returns an entry of no special kind, signed, with one
\* block of the file's size, and Get of that block's reference returns the
\* file's bytes.
C9_LookupThenGet ==
    (/\ last.op = "Lookup"
     /\ last.caller = Owner
     /\ Stat(LastLocal).kind = "file"
     /\ Stat(LastLocal).perm = "wr"
     /\ fs[PRA].kind = "absent"
     /\ fs[PDA].kind = "absent"
     /\ last.before[LastLocal] = NoEntry
     /\ last.err = "ok")
    => /\ last.entries[1].Attr = {}
       /\ last.entries[1].Packdata # <<>>
       /\ Len(last.entries[1].Blocks) = 1
       /\ last.entries[1].Blocks[1].Size = Len(Stat(LastLocal).content)
       /\ LET g == Get(dirEntries, Owner, last.entries[1].Blocks[1].Reference)
          IN  g.err = "ok" /\ g.data = Stat(LastLocal).content

\* C10: Put and Delete of the store and of the directory fail with the
\* read-only error for every caller, dialed or not, return nothing and leave
\* the cache as it was.
C10_ReadOnly ==
    last.op \in MutatingOps
    => /\ last.err = "ReadOnly"
       /\ last.entries = <<>>
       /\ last.data = <<>>
       /\ dirEntries = last.before

\* Delete on the directory service of a handle never dialed, with an entry
\* in the cache
C10_Witness ==
    /\ last.op = "Dir.Delete"
    /\ last.caller = NoUser
    /\ dirEntries[PF] # NoEntry
    /\ last.err = "ReadOnly"

----------------------------------------------------------------------------
\* C11: WhichAccess on a path of the owner for which the caller holds some
\* right succeeds: it returns the entry of the nearest enclosing policy
\* file when there is one, and no entry and no error when no level has one.
C11_WhichAccessSucceeds ==
    (/\ last.op = "WhichAccess"
     /\ LastParsed.ok
     /\ LastParsed.user = Owner
     /\ can(last.caller, "AnyRight", Owner, LastElems) = Res("ok", TRUE)
     /\ whichAccess(Owner, LastElems).err = "ok")
    => /\ last.err = "ok"
       /\ whichAccess(Owner, LastElems).val # <<>>
            => /\ Len(last.entries) = 1
               /\ last.entries[1].Name = whichAccess(Owner, LastElems).val
       /\ whichAccess(Owner, LastElems).val = <<>> => last.entries = <<>>

----------------------------------------------------------------------------
\* C13: the entry of a regular file that a Lookup returns does not depend on
\* the caller whose request built it: the same Lookup made on the same cache
\* by any other caller who is let through returns the same entry, Packdata
\* included.
C13_CacheContextIndependent ==
    (/\ last.op = "Lookup"
     /\ last.err = "ok"
     /\ Stat(LastLocal).kind = "file")
    => \A c1 \in Callers :
          LET r1 == Lookup(last.before, c1, last.arg, TRUE)
          IN  r1.err = "ok" => r1.entries = last.entries

----------------------------------------------------------------------------
\* the longest prefix of a local path that names something
RECURSIVE ExistingPrefix(_)
ExistingPrefix(elems) ==
    IF elems = <<>> \/ Stat(elems).kind # "absent" THEN elems
    ELSE ExistingPrefix(DropLast(elems, 1))

\* C14: a Lookup by a caller whom the policy in force refuses the list right
\* fails with Private whether the path exists or not (for a path that does
\* not exist the policy in force is that of its nearest existing ancestor).
C14_DeniedIndistinguishable ==
    (/\ last.op = "Lookup"
     /\ LastParsed.ok
     /\ LastParsed.user = Owner
     /\ can(last.caller, "List", Owner, ExistingPrefix(LastElems)) = Res("ok", FALSE))
    => last.err = "Private"

----------------------------------------------------------------------------
\* C15: an entry is never changed once built: every entry the cache holds
\* has the block, the signature and the completeness entry() built it with,
\* and a Lookup of a regular file that succeeds returns a complete entry,
\* whatever listings were made before by callers refused the read right.
C15_EntriesNeverMutated ==
    /\ \A p \in LocalPaths :
          dirEntries[p] # NoEntry
          => /\ "Incomplete" \notin dirEntries[p].Attr
             /\ Len(dirEntries[p].Blocks) = 1
             /\ dirEntries[p].Packdata # <<>>
    /\ (/\ last.op = "Lookup"
        /\ last.err = "ok"
        /\ Stat(LastLocal).kind = "file")
       => /\ "Incomplete" \notin last.entries[1].Attr
          /\ Len(last.entries[1].Blocks) = 1
          /\ last.entries[1].Packdata # <<>>

----------------------------------------------------------------------------
\* the cache that holds nothing
EmptyCache == [p \in LocalPaths |-> NoEntry]
\* the entries of a result that are entries of directories
DirectoryEntries(entries) ==
    {i \in 1..Len(entries) : "Directory" \in entries[i].Attr}

----------------------------------------------------------------------------
\* C18: a listing that fails returns no entries: the entries of the children
\* handled before the failure are not returned.
C18_NoPartialListing ==
    (last.op = "listDir" /\ last.err # "ok") => last.entries = <<>>

----------------------------------------------------------------------------
\* C19: Lookup, WhichAccess and listDir fail with Invalid for a path name
\* whose user is not the owner of the served tree, and return no entry.
C19_OwnerSegmentChecked ==
    (/\ last.op \in GatedOps
     /\ LastParsed.ok
     /\ LastParsed.user # Owner)
    => /\ last.err = "Invalid"
       /\ last.entries = <<>>

----------------------------------------------------------------------------
\* C16: whatever the interleaving of the steps of two requests and of
\* changes to the file, the entry an entry() call returns for the file has
\* the Time of the modification time that call's own os.Stat saw, whether
\* the call built the entry or took it from the cache.
C16_VersionIsOwnStat ==
    \A pr \in Procs :
        procs[pr].pc = "ret"
        => /\ procs[pr].e # 0
           /\ heap[procs[pr].e] # NoEntry
           /\ heap[procs[pr].e].Time = procs[pr].info.mtime

\* the two goroutines hold entries of different Times, each that of its own
\* os.Stat, and the one that saw the older time stored its entry last: the
\* cache holds an entry of Time 1 while the file's modification time is 2
C16_Witness ==
    /\ procs[1].pc = "ret"
    /\ procs[2].pc = "ret"
    /\ procs[1].info.mtime = 1
    /\ procs[2].info.mtime = 2
    /\ procs[1].e # procs[2].e
    /\ heap[procs[1].e].Time = 1
    /\ heap[procs[2].e].Time = 2
    /\ fs[PF].mtime = 2
    /\ slot = procs[1].e

----------------------------------------------------------------------------
\* a Dial step: every struct there was is as it was, and the one new struct
\* is the copy of the one dialed on with the dialing config as its user (so
\* with the same server, root, default policy and cache); the cache and the
\* tree are untouched
DialStepFrame ==
    (last = Idle /\ last'.op = "Dial")
    => /\ Len(handles') = Len(handles) + 1
       /\ \A h \in 1..Len(handles) : handles'[h] = handles[h]
       /\ handles'[Len(handles')].user = last'.caller
       /\ \A f \in {"server", "root", "defaultAccess", "dirEntries"} :
             handles'[Len(handles')][f] = handles[last'.handle][f]
       /\ dirEntries' = dirEntries
       /\ fs' = fs

\* a request step through a handle: no struct changes, and the permission
\* check is made for the user of the handle's own struct: the request is
\* refused exactly when the policy in force refuses that user the right
RequestStepOwnUser ==
    (last = Idle /\ last'.op \in {"Lookup", "Get"})
    => LET u      == handles[last'.handle].user
           right  == IF last'.op = "Lookup" THEN "List" ELSE "Read"
           parsed == IF last'.op = "Lookup" THEN Parse(last'.arg)
                     ELSE GetPath(last'.arg)
           c      == can(u, right, parsed.user, parsed.elems)
       IN  /\ handles' = handles
           /\ last'.caller = u
           /\ u # NoUser /\ c = Res("ok", FALSE)
                => last'.err \in {"Private", "PermissionDenied"}
           /\ u # NoUser /\ c = Res("ok", TRUE)
                => last'.err \notin {"Private", "PermissionDenied"}

\* C20: Dial returns a new handle whose user is the dialing config and whose
\* root, cache and default policy are those of the handle dialed on, and
\* changes no handle there was; whatever Dial calls and requests are made in
\* whatever order, a request through a handle is checked for that handle's
\* own user.
C20_DialFrame == [][DialStepFrame /\ RequestStepOwnUser]_vars

\* a handle of the owner was dialed on for another user: there are the
\* struct of New, the owner's handle and the other user's
C20_Witness ==
    /\ last.op = "Dial"
    /\ last.handle = 2
    /\ last.caller = Other
    /\ Len(handles) = 3
    /\ handles[1].user = NoUser
    /\ handles[2].user = Owner
    /\ handles[3].user = Other
    /\ dirEntries[PF] # NoEntry

=============================================================================
